---- MODULE Spec2Model ----
(***************************************************************************)
(* Model of src/bot.py: a Telegram bot that stores the text a user sends,  *)
(* asks for a translation direction with inline buttons and, when a button *)
(* is pressed, sends the stored text to Gemini and edits the message with  *)
(* the result.                                                             *)
(*                                                                         *)
(* Strings that the code slices or strips are sequences; optional values   *)
(* whose payload is a sequence are sets of at most one element ({} is      *)
(* Python's None); other optional values use the token None.               *)
(***************************************************************************)
EXTENDS Integers, Sequences, FiniteSets, TLC

VARIABLES
    app,            \* main(): "init", "running" (run_polling) or "halted" (early return)
    gemini_client,  \* the global gemini_client
    user_data,      \* context.user_data of every user
    updates,        \* the updates the application has taken, in order
    tasks,          \* tasks[i]: position and locals of the handler of updates[i]
    renders,        \* the reply_html / reply_text / edit_message_text calls, in order
    calls           \* the generate_content calls, in order

vars == <<app, gemini_client, user_data, updates, tasks, renders, calls>>

\* ---------------------------------------------------------------- bounds
MaxEvents == 3

Users == {"u1", "u2"}

Texts == {"x", "y"}

\* ------------------------------------------------------------- constants
None == "None"

SELECTED_GEMINI_MODEL == "gemini-2.0-flash"

slang_to_standard_russian == <<"slang_to_standard_russian">>

standard_russian_to_slang == <<"standard_russian_to_slang">>

\* dict order of ACTIVE_MODES (Python dicts keep insertion order)
ModeOrder == <<slang_to_standard_russian, standard_russian_to_slang>>

ACTIVE_MODES ==
    [k \in {slang_to_standard_russian, standard_russian_to_slang} |->
        IF k = slang_to_standard_russian
        THEN [button_text |-> "Sleng -> Ponyatno",
              gemini_prompt |-> "explain slang in plain literary Russian"]
        ELSE [button_text |-> "Ponyatno -> Sleng",
              gemini_prompt |-> "translate standard Russian into youth slang"]]

\* the literal "mode_" of the callback data
ModePrefix == <<"m", "o", "d", "e", "_">>

\* ------------------------------------------------------- dict primitives
\* context.user_data of one user: a dict, modelled as a set of <<key, value>>
DictKeys(d) == {p[1] : p \in d}

\* a store that appends instead of overwriting
DictSetItem_Append(d, k, v) == d \cup {<<k, v>>}

DictSetItem(d, k, v) == {p \in d : p[1] # k} \cup {<<k, v>>}

\* dict.get instead of dict.pop: the entry stays
DictPopped_Get(d, k) == d

DictPopped(d, k) == {p \in d : p[1] # k}

DictPopValue(d, k, default) ==
    IF k \in DictKeys(d) THEN (CHOOSE p \in d : p[1] = k)[2] ELSE default

\* ------------------------------------------------------- pure functions
\* str.strip() on a sequence of characters
IsSpace(c) == c = " "

RECURSIVE lstrip(_)
lstrip(s) == IF s # <<>> /\ IsSpace(Head(s)) THEN lstrip(Tail(s)) ELSE s

RECURSIVE rstrip(_)
rstrip(s) ==
    IF s # <<>> /\ IsSpace(s[Len(s)]) THEN rstrip(SubSeq(s, 1, Len(s) - 1)) ELSE s

strip(s) == rstrip(lstrip(s))

\* BuildPrompt without the f prefix: the placeholder is sent instead of the text
BuildPrompt_NoInterpolation(specific_task_description, text_to_translate) ==
    <<"role", "{specific_task_description}", "rules", "source text:",
      "{text_to_translate}", "result cue">>

\* the f-string prompt of translate_text_with_gemini
BuildPrompt(specific_task_description, text_to_translate) ==
    <<"role", specific_task_description, "rules", "source text:",
      text_to_translate, "result cue">>

\* a keyboard that offers the first mode only
build_translation_mode_keyboard_FirstOnly ==
    << << [text |-> ACTIVE_MODES[ModeOrder[1]].button_text,
           callback_data |-> ModePrefix \o ModeOrder[1]] >> >>

build_translation_mode_keyboard ==
    << [i \in 1..Len(ModeOrder) |->
          [text |-> ACTIVE_MODES[ModeOrder[i]].button_text,
           callback_data |-> ModePrefix \o ModeOrder[i]]] >>

\* the slice starts one character late
SliceFrom_OffByOne(s, n) == SubSeq(s, n + 2, Len(s))

\* query.data[len("mode_"):]
SliceFrom(s, n) == SubSeq(s, n + 1, Len(s))

\* ------------------------------------------------------------ the inputs
\* what generate_content can do: raise, or return a response object whose
\* .text is None or a string
GeminiOutcomes ==
    { [exc |-> e, response |-> FALSE, text |-> {}] : e \in {"ServerError", "ClientError"} }
    \cup { [exc |-> None, response |-> FALSE, text |-> {}] }
    \cup { [exc |-> None, response |-> TRUE, text |-> t] :
             t \in { {}, {<<>>}, {<<" ">>}, {<<" ", "r", " ">>} } }

\* callback data routed by CallbackQueryHandler(pattern="^mode_")
CallbackData ==
    { ModePrefix \o k : k \in {slang_to_standard_russian, standard_russian_to_slang, <<"zzz">>} }

\* message ids: the message created by renders[i] has id i; 0 is a keyboard
\* message that exists from before this process started
LastKeyboard(u) ==
    LET S == {i \in 1..Len(renders) : renders[i].user = u /\ renders[i].op = "reply_text"}
    IN IF S = {} THEN 0 ELSE CHOOSE i \in S : \A j \in S : j <= i

\* MessageHandler(filters.TEXT & ~filters.COMMAND) lets through a message
\* with a non-empty text, or an update whose text is in another field (an
\* edited message, a channel post), for which update.message is None
TextInputs == {<<{}, None>>} \cup {<<{0}, t>> : t \in Texts}

\* CommandHandler("start") lets through a message or an edited message
ResetInputs == {{}, {0}}

\* CallbackQueryHandler(pattern="^mode_") lets through the presses of buttons
\* of this bot's keyboards: the query carries the keyboard message (here the
\* user's latest one) and data with the prefix
SelectionInputs(u) == {<<{LastKeyboard(u)}, d>> : d \in CallbackData}

\* --------------------------------------------------------------- helpers
\* outcome: what the awaited generate_content did ({} while there is none)
NoLocals == [pc |-> "done", mode_key |-> <<>>, original_text |-> None,
             reply_markup |-> <<>>, outcome |-> {}, translated_text |-> {}]

Active == {i \in 1..Len(tasks) : tasks[i].pc # "done"}

Arrive(ev, locals) ==
    /\ updates' = Append(updates, ev)
    /\ tasks' = Append(tasks, locals)

Render(i, op, body, markup) ==
    [task |-> i, user |-> updates[i].user, op |-> op,
     message |-> updates[i].message, body |-> body, reply_markup |-> markup]

Event(kind, u, message, text, data) ==
    [kind |-> kind, user |-> u, message |-> message, text |-> text, data |-> data]

\* an application built with concurrent_updates(True)
ConcurrentUpdates_Enabled == TRUE

\* Application.builder().token(...).build(): concurrent_updates is not set,
\* and every handler is added with the default block=True, so the application
\* awaits one update's handler to its end before it takes the next update.
ConcurrentUpdates == FALSE

CanDispatch ==
    /\ app = "running"
    /\ Len(updates) < MaxEvents
    /\ (ConcurrentUpdates \/ Active = {})

\* one dict shared by all users (bot_data in place of user_data)
ContextUserData_Shared(update) == CHOOSE u \in Users : TRUE

\* context.user_data inside the handler of an update: the dict of the
\* update's effective user
ContextUserData(update) == update.user

\* the pop moved above the check of the mode key
StoreAfterLookup_PopFirst(d, mode_key) == DictPopped(d, "original_text")

\* the text is read but never removed
StoreAfterLookup_Keep(d, mode_key) == d

\* lines 104 and 109: what the handler leaves in the user's dict (the pop runs
\* only after the mode key was found in ACTIVE_MODES)
StoreAfterLookup(d, mode_key) ==
    IF mode_key \notin DOMAIN ACTIVE_MODES THEN d ELSE DictPopped(d, "original_text")

\* ------------------------------------------------------------------ Init
Init ==
    /\ app = "init"
    /\ gemini_client = None
    /\ user_data = [u \in Users |-> {}]
    /\ updates = <<>>
    /\ tasks = <<>>
    /\ renders = <<>>
    /\ calls = <<>>

\* --------------------------------------------------------------- main()
main ==
    /\ app = "init"
    /\ \E token \in BOOLEAN, key \in BOOLEAN, client_ok \in BOOLEAN :
         IF token /\ key /\ client_ok
         THEN app' = "running" /\ gemini_client' = "client"
         ELSE app' = "halted" /\ gemini_client' = None
    /\ UNCHANGED <<user_data, updates, tasks, renders, calls>>

\* ------------------------------------------------------- start_command
\* lines 80-86: the guard and the awaited reply_html
start_command(u, message) ==
    /\ CanDispatch
    /\ LET ev == Event("Reset", u, message, None, <<>>)
           i == Len(updates) + 1
       IN IF message = {}
          THEN /\ Arrive(ev, NoLocals)
               /\ UNCHANGED renders
          ELSE /\ Arrive(ev, [NoLocals EXCEPT !.pc = "L87"])
               /\ renders' = Append(renders,
                     [task |-> i, user |-> u, op |-> "reply_html", message |-> message,
                      body |-> <<"greeting", u>>, reply_markup |-> <<>>])
    /\ UNCHANGED <<app, gemini_client, user_data, calls>>

\* line 87: context.user_data.clear()
start_command_clear(i) ==
    /\ i \in Active
    /\ tasks[i].pc = "L87"
    /\ user_data' = [user_data EXCEPT ![ContextUserData(updates[i])] = {}]
    /\ tasks' = [tasks EXCEPT ![i] = NoLocals]
    /\ UNCHANGED <<app, gemini_client, updates, renders, calls>>

\* the guard of line 91 is skipped
handle_text_message_NoGuard(u, message, text) ==
    /\ CanDispatch
    /\ LET ev == Event("Text", u, message, text, <<>>)
       IN /\ Arrive(ev, [NoLocals EXCEPT !.pc = "L95",
                            !.reply_markup = build_translation_mode_keyboard])
          /\ user_data' = [user_data EXCEPT
                ![ContextUserData(ev)] = DictSetItem(@, "original_text", text)]
    /\ UNCHANGED <<app, gemini_client, renders, calls>>

\* the store of line 93 is left out
handle_text_message_NoStore(u, message, text) ==
    /\ CanDispatch
    /\ LET ev == Event("Text", u, message, text, <<>>)
       IN IF message = {} \/ text = None \/ text = ""
          THEN Arrive(ev, NoLocals)
          ELSE Arrive(ev, [NoLocals EXCEPT !.pc = "L95",
                              !.reply_markup = build_translation_mode_keyboard])
    /\ UNCHANGED <<app, gemini_client, user_data, renders, calls>>

\* ------------------------------------------------- handle_text_message
\* lines 90-94: the guard, the store, the keyboard
handle_text_message(u, message, text) ==
    /\ CanDispatch
    /\ LET ev == Event("Text", u, message, text, <<>>)
           i == Len(updates) + 1
       IN IF message = {} \/ text = None \/ text = ""
          THEN /\ Arrive(ev, NoLocals)
               /\ UNCHANGED user_data
          ELSE /\ Arrive(ev, [NoLocals EXCEPT !.pc = "L95",
                                 !.reply_markup = build_translation_mode_keyboard])
               /\ user_data' = [user_data EXCEPT
                     ![ContextUserData(ev)] = DictSetItem(@, "original_text", text)]
    /\ UNCHANGED <<app, gemini_client, renders, calls>>

\* line 95: the awaited reply_text
handle_text_message_reply(i) ==
    /\ i \in Active
    /\ tasks[i].pc = "L95"
    /\ renders' = Append(renders,
          Render(i, "reply_text", <<"choose direction">>, tasks[i].reply_markup))
    /\ tasks' = [tasks EXCEPT ![i] = NoLocals]
    /\ UNCHANGED <<app, gemini_client, user_data, updates, calls>>

\* ----------------------------------------------- handle_mode_selection
\* lines 98-101: the guard and the awaited query.answer()
handle_mode_selection(u, message, data) ==
    /\ CanDispatch
    /\ LET ev == Event("Selection", u, message, None, data)
       IN IF data = <<>> \/ message = {}
          THEN Arrive(ev, NoLocals)
          ELSE Arrive(ev, [NoLocals EXCEPT !.pc = "L103"])
    /\ UNCHANGED <<app, gemini_client, user_data, renders, calls>>

\* lines 103-119: the mode key, the pop of the stored text, and the first
\* awaited edit_message_text (unknown mode, no text, or "working")
handle_mode_selection_lookup(i) ==
    /\ i \in Active
    /\ tasks[i].pc = "L103"
    /\ LET u == ContextUserData(updates[i])
           mode_key == SliceFrom(updates[i].data, Len(ModePrefix))
       IN IF mode_key \notin DOMAIN ACTIVE_MODES
          THEN /\ renders' = Append(renders,
                     Render(i, "edit_message_text", <<"unknown mode">>, <<>>))
               /\ tasks' = [tasks EXCEPT ![i] = NoLocals]
               /\ user_data' = [user_data EXCEPT ![u] = StoreAfterLookup(@, mode_key)]
          ELSE LET selected_mode_button_text == ACTIVE_MODES[mode_key].button_text
                   original_text == DictPopValue(user_data[u], "original_text", None)
               IN /\ user_data' = [user_data EXCEPT ![u] = StoreAfterLookup(@, mode_key)]
                  /\ IF original_text = None \/ original_text = ""
                     THEN /\ renders' = Append(renders,
                                Render(i, "edit_message_text", <<"no text found">>, <<>>))
                          /\ tasks' = [tasks EXCEPT ![i] = NoLocals]
                     ELSE /\ renders' = Append(renders,
                                Render(i, "edit_message_text",
                                       <<"working", selected_mode_button_text>>, <<>>))
                          /\ tasks' = [tasks EXCEPT ![i] =
                                [NoLocals EXCEPT !.pc = "L121", !.mode_key = mode_key,
                                                 !.original_text = original_text]]
    /\ UNCHANGED <<app, gemini_client, updates, calls>>

\* line 121 and lines 33-61 of translate_text_with_gemini: the checks, the
\* prompt and the issue of generate_content
translate_text_with_gemini_call(i) ==
    /\ i \in Active
    /\ tasks[i].pc = "L121"
    /\ LET mode_key == tasks[i].mode_key
       IN IF gemini_client = None \/ mode_key \notin DOMAIN ACTIVE_MODES
          THEN /\ tasks' = [tasks EXCEPT ![i].pc = "L123", ![i].translated_text = {}]
               /\ UNCHANGED calls
          ELSE /\ calls' = Append(calls,
                     [task |-> i, model |-> SELECTED_GEMINI_MODEL,
                      contents |-> BuildPrompt(ACTIVE_MODES[mode_key].gemini_prompt,
                                               tasks[i].original_text)])
               /\ tasks' = [tasks EXCEPT ![i].pc = "L58"]
    /\ UNCHANGED <<app, gemini_client, user_data, updates, renders>>

\* the except branch returns the error message as if it were the translation
TranslateResult_ErrorAsText(o) ==
    IF o.exc # None THEN {<<"e", "r", "r">>}
    ELSE IF o.response /\ (\E t \in o.text : t # <<>>)
         THEN {strip(t) : t \in o.text}
         ELSE {}

\* the response text is returned as it came
TranslateResult_NoStrip(o) ==
    IF o.exc # None THEN {}
    ELSE IF o.response /\ (\E t \in o.text : t # <<>>)
         THEN o.text
         ELSE {}

\* lines 62-69: what translate_text_with_gemini returns for an outcome of the
\* awaited generate_content
TranslateResult(o) ==
    IF o.exc # None THEN {}
    ELSE IF o.response /\ (\E t \in o.text : t # <<>>)
         THEN {strip(t) : t \in o.text}
         ELSE {}

\* a failed call is issued again
translate_text_with_gemini_return_Retry(i, o) ==
    /\ i \in Active
    /\ tasks[i].pc = "L58"
    /\ IF TranslateResult(o) = {}
       THEN tasks' = [tasks EXCEPT ![i].pc = "L121"]
       ELSE tasks' = [tasks EXCEPT ![i].pc = "L123", ![i].outcome = {o},
                                    ![i].translated_text = TranslateResult(o)]
    /\ UNCHANGED <<app, gemini_client, user_data, updates, renders, calls>>

\* an exception of the call leaves the generate operation and ends the handler
translate_text_with_gemini_return_Raise(i, o) ==
    /\ i \in Active
    /\ tasks[i].pc = "L58"
    /\ IF o.exc # None
       THEN tasks' = [tasks EXCEPT ![i] = NoLocals]
       ELSE tasks' = [tasks EXCEPT ![i].pc = "L123", ![i].outcome = {o},
                                    ![i].translated_text = TranslateResult(o)]
    /\ UNCHANGED <<app, gemini_client, user_data, updates, renders, calls>>

\* lines 57-69: generate_content returns or raises
translate_text_with_gemini_return(i, o) ==
    /\ i \in Active
    /\ tasks[i].pc = "L58"
    /\ tasks' = [tasks EXCEPT ![i].pc = "L123", ![i].outcome = {o},
                               ![i].translated_text = TranslateResult(o)]
    /\ UNCHANGED <<app, gemini_client, user_data, updates, renders, calls>>

\* the result and the failure are sent as a new message
handle_mode_selection_finish_NewMessage(i) ==
    /\ i \in Active
    /\ tasks[i].pc = "L123"
    /\ LET translated_text == tasks[i].translated_text
           selected_mode_button_text == ACTIVE_MODES[tasks[i].mode_key].button_text
       IN IF \E t \in translated_text : t # <<>>
          THEN renders' = Append(renders,
                  Render(i, "reply_text",
                         <<"result", CHOOSE t \in translated_text : TRUE>>, <<>>))
          ELSE renders' = Append(renders,
                  Render(i, "reply_text",
                         <<"failed", selected_mode_button_text>>, <<>>))
    /\ tasks' = [tasks EXCEPT ![i] = NoLocals]
    /\ UNCHANGED <<app, gemini_client, user_data, updates, calls>>

\* lines 123-129: the result or the failure render
handle_mode_selection_finish(i) ==
    /\ i \in Active
    /\ tasks[i].pc = "L123"
    /\ LET translated_text == tasks[i].translated_text
           selected_mode_button_text == ACTIVE_MODES[tasks[i].mode_key].button_text
       IN IF \E t \in translated_text : t # <<>>
          THEN renders' = Append(renders,
                  Render(i, "edit_message_text",
                         <<"result", CHOOSE t \in translated_text : TRUE>>, <<>>))
          ELSE renders' = Append(renders,
                  Render(i, "edit_message_text",
                         <<"failed", selected_mode_button_text>>, <<>>))
    /\ tasks' = [tasks EXCEPT ![i] = NoLocals]
    /\ UNCHANGED <<app, gemini_client, user_data, updates, calls>>

\* ------------------------------------------------------------------ Next
Next ==
    \/ main
    \/ \E u \in Users, m \in ResetInputs : start_command(u, m)
    \/ \E i \in 1..MaxEvents : start_command_clear(i)
    \/ \E u \in Users, inp \in TextInputs : handle_text_message(u, inp[1], inp[2])
    \/ \E i \in 1..MaxEvents : handle_text_message_reply(i)
    \/ \E u \in Users : \E inp \in SelectionInputs(u) :
          handle_mode_selection(u, inp[1], inp[2])
    \/ \E i \in 1..MaxEvents : handle_mode_selection_lookup(i)
    \/ \E i \in 1..MaxEvents : translate_text_with_gemini_call(i)
    \/ \E i \in 1..MaxEvents, o \in GeminiOutcomes : translate_text_with_gemini_return(i, o)
    \/ \E i \in 1..MaxEvents : handle_mode_selection_finish(i)

Spec == Init /\ [][Next]_vars

\* a step of the handler that is running: each await of a handler returns
\* (the event loop resumes the coroutine), the generation call included
HandlerStep ==
    \E i \in 1..MaxEvents :
        \/ start_command_clear(i)
        \/ handle_text_message_reply(i)
        \/ handle_mode_selection_lookup(i)
        \/ translate_text_with_gemini_call(i)
        \/ \E o \in GeminiOutcomes : translate_text_with_gemini_return(i, o)
        \/ handle_mode_selection_finish(i)

\* the program under the assumption that a running handler is not
\* suspended forever: the generation call eventually returns or fails
FairSpec == Spec /\ WF_vars(HandlerStep)

\* =====================================================================
\* Vocabulary of the properties
\* =====================================================================
Tasks == 1..Len(updates)

RegisteredKeys == DOMAIN ACTIVE_MODES

\* updates[i] is Selection(u, messageRef, k) with the registered key k
ValidSel(i, k) ==
    /\ updates[i].kind = "Selection"
    /\ updates[i].message # {}
    /\ updates[i].data = ModePrefix \o k

\* updates[i] is a Selection whose key is in no registry entry
UnknownSel(i) ==
    /\ updates[i].kind = "Selection"
    /\ updates[i].message # {}
    /\ \A k \in RegisteredKeys : updates[i].data # ModePrefix \o k

\* updates[i] is Text(u, t) with the non-empty text t
IsText(i, t) ==
    /\ updates[i].kind = "Text"
    /\ updates[i].message # {}
    /\ updates[i].text = t
    /\ t \in Texts

IsReset(i) == updates[i].kind = "Reset" /\ updates[i].message # {}

\* the events of the same user before and after updates[i]
Earlier(i) == {j \in Tasks : j < i /\ updates[j].user = updates[i].user}

Later(i) == {j \in Tasks : j > i /\ updates[j].user = updates[i].user}

Prev(i) == CHOOSE j \in Earlier(i) : \A h \in Earlier(i) : h <= j

\* the event of the same user directly before updates[i] is Text(u, t)
DirectlyAfterText(i, t) == Earlier(i) # {} /\ IsText(Prev(i), t)

RendersOf(S) == SelectSeq(renders, LAMBDA r : r.task \in S)

CallsOf(i) == SelectSeq(calls, LAMBDA c : c.task = i)

HasPending(u) == "original_text" \in DictKeys(user_data[u])

IsEdit(r, tag) == r.op = "edit_message_text" /\ r.body[1] = tag

\* ---------------------------------------------------------------------
\* C1: when Text(u,t) and then Selection(u,k) with a registered key k are
\* handled with no other event of u in between, the Selection issues exactly
\* one generation call (never two, and one as soon as it is past line 121),
\* and the prompt of that call carries the instruction template of mode k and
\* the text t.
C1_OneCallFromModeAndText ==
    \A i \in Tasks : \A k \in RegisteredKeys, t \in Texts :
        (ValidSel(i, k) /\ DirectlyAfterText(i, t)) =>
            /\ Len(CallsOf(i)) <= 1
            /\ tasks[i].pc \in {"L58", "L123", "done"} =>
                 /\ Len(CallsOf(i)) = 1
                 /\ CallsOf(i)[1].contents[2] = ACTIVE_MODES[k].gemini_prompt
                 /\ CallsOf(i)[1].contents[5] = t

C1_Witness ==
    \E i \in Tasks : \E k \in RegisteredKeys, t \in Texts :
        /\ ValidSel(i, k) /\ DirectlyAfterText(i, t)
        /\ k = standard_russian_to_slang
        /\ tasks[i].pc = "done"
        /\ Len(CallsOf(i)) = 1

\* ---------------------------------------------------------------------
\* By the history of updates, user u has no pending text when updates[i] is
\* handled: u sent no text before, or a Selection of u with a registered key
\* was handled after u's latest text.
LatestText(i) ==
    LET T == {j \in Earlier(i) : \E t \in Texts : IsText(j, t)}
    IN IF T = {} THEN 0 ELSE CHOOSE j \in T : \A h \in T : h <= j

ConsumedBefore(i) ==
    \E j \in Earlier(i) : j > LatestText(i) /\ \E k \in RegisteredKeys : ValidSel(j, k)

NothingPending(i) == LatestText(i) = 0 \/ ConsumedBefore(i)

\* C2: a Selection with a registered key handled while its user has no
\* pending text (never sent one, or an earlier Selection consumed it) issues
\* no generation call, ends in its first step after the acknowledgement and,
\* once ended, has emitted the "no text found" render and nothing else.
C2_NoTextNoCall ==
    \A i \in Tasks : \A k \in RegisteredKeys :
        (ValidSel(i, k) /\ NothingPending(i)) =>
            /\ CallsOf(i) = <<>>
            /\ tasks[i].pc \in {"L103", "done"}
            /\ tasks[i].pc = "done" =>
                 /\ Len(RendersOf({i})) = 1
                 /\ IsEdit(RendersOf({i})[1], "no text found")

\* the second of two Selections directly after one Text has ended
C2_Witness ==
    \E i \in Tasks : \E k \in RegisteredKeys :
        /\ ValidSel(i, k) /\ ConsumedBefore(i)
        /\ Earlier(i) # {} /\ (\E k2 \in RegisteredKeys : ValidSel(Prev(i), k2))
        /\ tasks[i].pc = "done"
        /\ Len(RendersOf({i})) = 1

\* ---------------------------------------------------------------------
\* the handler of updates[i] acts in this step (it arrives or moves on)
Acts(i) == i > Len(updates) \/ tasks'[i] # tasks[i]

UnknownSelNext(i) ==
    /\ updates'[i].kind = "Selection"
    /\ updates'[i].message # {}
    /\ \A k \in RegisteredKeys : updates'[i].data # ModePrefix \o k

\* C3: a Selection whose key is not registered never issues a generation
\* call, leaves the store of every user as it was in each of its steps, and
\* emits the "unknown mode" render as its only render.
C3_UnknownModeFrame ==
    [][\A i \in 1..Len(updates') :
          (UnknownSelNext(i) /\ Acts(i)) =>
              /\ user_data' = user_data
              /\ calls' = calls
              /\ tasks'[i].pc \in {"L103", "done"}
              /\ tasks'[i].pc = "done" =>
                   /\ Len(renders') = Len(renders) + 1
                   /\ renders'[Len(renders')].task = i
                   /\ IsEdit(renders'[Len(renders')], "unknown mode")]_vars

\* an unknown-key Selection has ended and the text the user sent is still stored
C3_Witness ==
    \E i \in Tasks : \E t \in Texts :
        /\ UnknownSel(i) /\ DirectlyAfterText(i, t)
        /\ tasks[i].pc = "done"
        /\ Later(i) = {}
        /\ user_data[updates[i].user] = {<<"original_text", t>>}
        /\ Len(RendersOf({i})) = 1

C5_LastWriteWins ==
    /\ \A u \in Users : Cardinality(user_data[u]) <= 1
    /\ \A i \in Tasks : \A k \in RegisteredKeys, x \in Texts, y \in Texts :
          ( /\ ValidSel(i, k) /\ DirectlyAfterText(i, y)
            /\ DirectlyAfterText(Prev(i), x)
            /\ tasks[i].pc \in {"L58", "L123", "done"} ) =>
               /\ Len(CallsOf(i)) = 1
               /\ CallsOf(i)[1].contents[5] = y

C5_Witness ==
    \E i \in Tasks : \E k \in RegisteredKeys, x \in Texts, y \in Texts :
        /\ x # y
        /\ ValidSel(i, k) /\ DirectlyAfterText(i, y) /\ DirectlyAfterText(Prev(i), x)
        /\ tasks[i].pc = "done"
        /\ Len(CallsOf(i)) = 1
        /\ CallsOf(i)[1].contents[5] = y

\* ---------------------------------------------------------------------
\* a failed generation call: the service raised, the response is missing,
\* its text is absent, or its text is empty
IsFailure(o) == o.exc # None \/ ~o.response \/ o.text = {} \/ o.text = {<<>>}

LabelOf(i) ==
    ACTIVE_MODES[CHOOSE k \in RegisteredKeys : updates[i].data = ModePrefix \o k].button_text

\* the handler of updates[i] goes from position p to position q in this step
Moves(i, p, q) == i \in Tasks /\ tasks[i].pc = p /\ tasks'[i].pc = q

\* C6: when a generation call fails, the handler goes on at line 123 with a
\* failure outcome (nothing is raised out of the generate operation), and
\* the step that ends a Selection whose call failed emits the failure render
\* that names the label of the chosen mode.
C6_FailureRendered ==
    [][\A i \in Tasks :
          /\ tasks[i].pc = "L58" /\ tasks'[i] # tasks[i] =>
                /\ tasks'[i].pc = "L123"
                /\ \A o \in tasks'[i].outcome :
                      IsFailure(o) => tasks'[i].translated_text = {}
          /\ (tasks[i].pc = "L123" /\ tasks'[i] # tasks[i]
                /\ \E o \in tasks[i].outcome : IsFailure(o)) =>
                /\ tasks'[i].pc = "done"
                /\ Len(renders') = Len(renders) + 1
                /\ renders'[Len(renders')].task = i
                /\ IsEdit(renders'[Len(renders')], "failed")
                /\ renders'[Len(renders')].body[2] = LabelOf(i)]_vars

\* a Selection has ended with the failure render of the second mode
C6_Witness ==
    \E i \in Tasks :
        /\ ValidSel(i, standard_russian_to_slang)
        /\ tasks[i].pc = "done"
        /\ Len(RendersOf({i})) = 2
        /\ IsEdit(RendersOf({i})[2], "failed")
        /\ RendersOf({i})[2].body[2] = ACTIVE_MODES[standard_russian_to_slang].button_text

\* ---------------------------------------------------------------------
\* the error kinds of the specification
ErrorKindOf(o) ==
    IF o.exc = "ServerError" THEN "ServiceUnavailable"
    ELSE IF o.exc = "ClientError" THEN "Unauthorized"
    ELSE IF o.exc # None THEN "Unknown"
    ELSE "EmptyResponse"

IsChooseDirection(r) ==
    /\ r.op = "reply_text"
    /\ r.body[1] = "choose direction"
    /\ Len(r.reply_markup) = 1
    /\ Len(r.reply_markup[1]) = Cardinality(RegisteredKeys)
    /\ \A k \in RegisteredKeys :
          \E b \in 1..Len(r.reply_markup[1]) :
              r.reply_markup[1][b].callback_data = ModePrefix \o k

IsWorking(r, i) == IsEdit(r, "working") /\ r.body[2] = LabelOf(i)

\* the generation of the handler of updates[i] succeeded with the text r
SucceededWith(i, r) ==
    \E o \in tasks[i].outcome :
        o.exc = None /\ o.response /\ o.text = {r} /\ strip(r) # <<>>

\* C8: a Selection with a registered key has emitted the "working" render,
\* and no other render, whenever its generation call is about to be issued,
\* in flight, or has just ended; and the step that ends a Selection that
\* directly follows Text(u,t) and whose generation succeeded with r leaves
\* as the renders of the two events, in this order, choose-direction with
\* one button per mode, working, result with r (stripped).
C8_RenderOrder ==
    [][\A i \in Tasks : \A k \in RegisteredKeys :
          ValidSel(i, k) =>
              /\ tasks'[i].pc \in {"L121", "L58", "L123"} =>
                   /\ Len(SelectSeq(renders', LAMBDA x : x.task = i)) = 1
                   /\ IsWorking(SelectSeq(renders', LAMBDA x : x.task = i)[1], i)
              /\ \A r \in {<<" ", "r", " ">>}, t \in Texts :
                    ( /\ Moves(i, "L123", "done")
                      /\ SucceededWith(i, r)
                      /\ DirectlyAfterText(i, t) ) =>
                         LET rs == SelectSeq(renders', LAMBDA x : x.task \in {Prev(i), i})
                         IN /\ Len(rs) = 3
                            /\ IsChooseDirection(rs[1])
                            /\ IsWorking(rs[2], i)
                            /\ IsEdit(rs[3], "result")
                            /\ rs[3].body[2] = <<"r">>]_vars

C8_Witness ==
    \E i \in Tasks : \E k \in RegisteredKeys, t \in Texts :
        /\ ValidSel(i, k) /\ DirectlyAfterText(i, t)
        /\ tasks[i].pc = "done"
        /\ Len(RendersOf({Prev(i), i})) = 3
        /\ IsEdit(RendersOf({i})[2], "result")
        /\ RendersOf({i})[2].body[2] = <<"r">>

\* ---------------------------------------------------------------------
\* the users whose handlers act in this step
ActingUsers == {updates'[i].user : i \in {j \in 1..Len(updates') : Acts(j)}}

\* the texts user u has sent in the updates before updates[i]
SentBefore(i) ==
    {updates'[j].text : j \in {h \in 1..(i - 1) :
         updates'[h].kind = "Text" /\ updates'[h].user = updates'[i].user}}

\* C9: in every step the pending entry of a user changes only if a handler
\* of an event of that user acts, and the text a Selection handler holds or
\* has put into a generation call is one that the same user sent before.
C9_UserIsolation ==
    [][ /\ \A v \in Users : user_data'[v] # user_data[v] => v \in ActingUsers
        /\ \A i \in 1..Len(updates') :
              tasks'[i].original_text # None => tasks'[i].original_text \in SentBefore(i)
        /\ \A n \in 1..Len(calls') :
              calls'[n].contents[5] \in SentBefore(calls'[n].task) ]_vars

\* both users have sent different texts, one has selected and got its own
\* text into the call, and the other's text is still pending
C9_Witness ==
    \E i \in Tasks : \E k \in RegisteredKeys, v \in Users, x \in Texts, y \in Texts :
        /\ x # y /\ v # updates[i].user
        /\ ValidSel(i, k) /\ DirectlyAfterText(i, x)
        /\ tasks[i].pc = "done"
        /\ Len(CallsOf(i)) = 1 /\ CallsOf(i)[1].contents[5] = x
        /\ user_data[v] = {<<"original_text", y>>}
        /\ ~HasPending(updates[i].user)

\* ---------------------------------------------------------------------
GreetingOf(i) == {n \in 1..Len(renders) : renders[n].task = i /\ renders[n].op = "reply_html"}

\* C10 as stated: a Reset removes the pending text of its user and emits the
\* greeting, the removal coming first (whenever the greeting of a Reset is
\* out and no later event of the user has arrived, the user has no pending
\* text), and a Selection with a registered key that directly follows the
\* Reset issues no call and ends with the "no text found" render.
C10_ResetClearsThenGreets ==
    /\ \A i \in Tasks :
          (IsReset(i) /\ GreetingOf(i) # {} /\ Later(i) = {}) =>
              ~HasPending(updates[i].user)
    /\ \A i \in Tasks : IsReset(i) /\ tasks[i].pc = "done" => GreetingOf(i) # {}
    /\ \A i \in Tasks : \A k \in RegisteredKeys :
          (ValidSel(i, k) /\ Earlier(i) # {} /\ IsReset(Prev(i))) =>
              /\ CallsOf(i) = <<>>
              /\ tasks[i].pc = "done" =>
                   /\ Len(RendersOf({i})) = 1
                   /\ IsEdit(RendersOf({i})[1], "no text found")

\* ---------------------------------------------------------------------
\* C11: a handler issues at most one generation call, and exactly one once
\* it has entered the generate operation, whatever the outcome (in flight,
\* returned, or ended with the result or the failure render); and every call
\* belongs to a Selection that follows a text of its user that no earlier
\* Selection with a registered key has used (no call without a new text).
C11_OneCallNoRetry ==
    \A i \in Tasks :
        /\ Len(CallsOf(i)) <= 1
        /\ tasks[i].pc \in {"L58", "L123"} => Len(CallsOf(i)) = 1
        /\ (tasks[i].pc = "done" /\ Len(RendersOf({i})) = 2) => Len(CallsOf(i)) = 1
        /\ CallsOf(i) # <<>> =>
              /\ updates[i].kind = "Selection"
              /\ LatestText(i) # 0
              /\ ~ConsumedBefore(i)

\* a Selection has ended with the failure render after one call, and the
\* next Selection of the user has ended without a call
C11_Witness ==
    \E i \in Tasks : \E j \in Later(i) : \E k \in RegisteredKeys :
        /\ ValidSel(i, k) /\ ValidSel(j, k)
        /\ tasks[i].pc = "done" /\ tasks[j].pc = "done"
        /\ Len(RendersOf({i})) = 2 /\ IsEdit(RendersOf({i})[2], "failed")
        /\ Len(CallsOf(i)) = 1
        /\ CallsOf(j) = <<>>

\* ---------------------------------------------------------------------
\* an inbound Text without a message or with absent or empty content
IgnoredText(ev) ==
    ev.kind = "Text" /\ (ev.message = {} \/ ev.text = None \/ ev.text = "")

\* C12: the step in which a Text with empty or absent content arrives leaves
\* the store of every user (the pending text of the sender included), the
\* renders and the calls as they were, and the handler of such a Text has
\* ended at once and never emits a render.
C12_EmptyTextIgnored ==
    [][ /\ (Len(updates') > Len(updates) /\ IgnoredText(updates'[Len(updates')]))
            => /\ user_data' = user_data
               /\ renders' = renders
               /\ calls' = calls
               /\ tasks'[Len(updates')].pc = "done"
        /\ \A i \in Tasks :
              IgnoredText(updates[i]) =>
                  /\ tasks'[i].pc = "done"
                  /\ \A n \in 1..Len(renders') : renders'[n].task # i
      ]_vars

\* a user with a pending text has sent a Text with absent content, and the
\* pending text is still in the store
C12_Witness ==
    \E i \in Tasks : \E t \in Texts :
        /\ IgnoredText(updates[i])
        /\ DirectlyAfterText(i, t)
        /\ tasks[i].pc = "done"
        /\ user_data[updates[i].user] = {<<"original_text", t>>}
        /\ RendersOf({i}) = <<>>

\* ---------------------------------------------------------------------
\* the renders of the handler of updates[i] that end a translation
TerminalRendersOf(i) ==
    SelectSeq(renders, LAMBDA r : r.task = i /\ r.body[1] \in {"result", "failed"})

\* C13: a Selection with a registered key that starts while its user has a
\* pending text eventually has ended with exactly one terminal render (the
\* result or the failure render, as an edit), and its user then has no
\* pending text. Handlers run one at a time, so the Selection that starts is
\* the newest update until it has ended.
C13_SelectionTerminates ==
    (LET i == Len(updates)
     IN /\ i >= 1
        /\ \E k \in RegisteredKeys : ValidSel(i, k)
        /\ tasks[i].pc = "L103"
        /\ HasPending(updates[i].user))
    ~> (LET i == Len(updates)
        IN /\ i >= 1
           /\ \E k \in RegisteredKeys : ValidSel(i, k)
           /\ tasks[i].pc = "done"
           /\ Len(TerminalRendersOf(i)) = 1
           /\ TerminalRendersOf(i)[1].op = "edit_message_text"
           /\ ~HasPending(updates[i].user))

\* a Selection that started with a pending text has ended with its one
\* terminal render
C13_Witness ==
    \E i \in Tasks : \E k \in RegisteredKeys : \E t \in Texts :
        /\ ValidSel(i, k)
        /\ DirectlyAfterText(i, t)
        /\ tasks[i].pc = "done"
        /\ Len(TerminalRendersOf(i)) = 1
        /\ ~HasPending(updates[i].user)

\* ---------------------------------------------------------------------
\* updates[j] changes the pending text of its user: a Text with content
\* stores one, a Reset and a Selection with a registered key remove it
Effective(j) ==
    \/ \E t \in Texts : IsText(j, t)
    \/ IsReset(j)
    \/ \E k \in RegisteredKeys : ValidSel(j, k)

\* the Text whose text is pending when updates[i] arrives, 0 if there is none
PendingTextBefore(i) ==
    LET E == {j \in Earlier(i) : Effective(j)}
    IN IF E = {} THEN 0
       ELSE LET m == CHOOSE j \in E : \A h \in E : h <= j
            IN IF updates[m].kind = "Text" THEN m ELSE 0

\* updates[j] is a Selection with a registered key, it directly follows
\* updates[i] among the events of its user, and its handler has ended
ValidSelDirectlyAfter(j, i) ==
    /\ j \in Later(i)
    /\ Prev(j) = i
    /\ \E k \in RegisteredKeys : ValidSel(j, k)
    /\ tasks[j].pc = "done"

OnlyNoTextFound(j) ==
    /\ Len(RendersOf({j})) = 1
    /\ IsEdit(RendersOf({j})[1], "no text found")
    /\ CallsOf(j) = <<>>

\* C14 as stated: after a Selection with an unregistered key its user has no
\* pending text, and a directly following Selection with a registered key
\* yields the "no text found" render, whatever was pending before.
C14_UnknownSelLeavesIdle ==
    \A i \in Tasks :
        (UnknownSel(i) /\ tasks[i].pc = "done") =>
            /\ Later(i) = {} => ~HasPending(updates[i].user)
            /\ \A j \in Tasks : ValidSelDirectlyAfter(j, i) => OnlyNoTextFound(j)

\* C14, amended: a Selection with an unregistered key leaves its user in the
\* state the user was in. Without a pending text before it there is none
\* after it and a directly following Selection with a registered key yields
\* the "no text found" render and no call; with a pending text before it the
\* text is still pending after it and the following Selection issues one
\* call whose prompt carries that text.
C14_UnknownSelKeepsState ==
    \A i \in Tasks :
        (UnknownSel(i) /\ tasks[i].pc = "done") =>
            /\ Later(i) = {} =>
                  (HasPending(updates[i].user) <=> PendingTextBefore(i) # 0)
            /\ \A j \in Tasks :
                  ValidSelDirectlyAfter(j, i) =>
                      IF PendingTextBefore(i) = 0
                      THEN OnlyNoTextFound(j)
                      ELSE /\ Len(CallsOf(j)) = 1
                           /\ CallsOf(j)[1].contents[5] = updates[PendingTextBefore(i)].text
                           /\ \A n \in 1..Len(RendersOf({j})) :
                                 ~IsEdit(RendersOf({j})[n], "no text found")

\* a Selection with an unregistered key came while a text was pending, and
\* the Selection with a registered key after it has issued its call
C14_Witness ==
    \E i \in Tasks : \E j \in Tasks :
        /\ UnknownSel(i)
        /\ PendingTextBefore(i) # 0
        /\ ValidSelDirectlyAfter(j, i)
        /\ Len(CallsOf(j)) = 1

\* ---------------------------------------------------------------------
\* the positions in the calls of the generation calls issued for user u
CallsFor(u) == {n \in 1..Len(calls) : updates[calls[n].task].user = u}

\* the Texts with content accepted from user u
AcceptedTexts(u) == {j \in Tasks : updates[j].user = u /\ \E t \in Texts : IsText(j, t)}

\* the Selections that have issued a call with the text of updates[j]
UsersOfText(j) == {i \in Tasks : CallsOf(i) # <<>> /\ PendingTextBefore(i) = j}

\* C15: the generation calls issued for a user never outnumber the Texts
\* with content accepted from that user; each stored text is used by at most
\* one Selection, for at most one call; and a handler that holds a text it
\* has read has removed it from the store in the same step, so no other
\* Selection can read it.
C15_ReadOnce ==
    /\ \A u \in Users : Cardinality(CallsFor(u)) <= Cardinality(AcceptedTexts(u))
    /\ \A j \in Tasks :
          /\ Cardinality(UsersOfText(j)) <= 1
          /\ \A i \in UsersOfText(j) : Len(CallsOf(i)) = 1
    /\ \A i \in Tasks :
          tasks[i].original_text # None =>
              /\ ~HasPending(updates[i].user)
              /\ PendingTextBefore(i) # 0
              /\ tasks[i].original_text = updates[PendingTextBefore(i)].text

\* two Selections with a registered key after one Text: the first has
\* issued the one call and shown the result, the second has ended without
\* a call
C15_Witness ==
    \E i \in Tasks : \E j \in Later(i) :
        /\ PendingTextBefore(i) # 0
        /\ \A h \in Earlier(j) : h > i => ~Effective(h)
        /\ \E k \in RegisteredKeys : ValidSel(i, k)
        /\ \E k \in RegisteredKeys : ValidSel(j, k)
        /\ Len(CallsOf(i)) = 1
        /\ \E n \in 1..Len(renders) : renders[n].task = i /\ IsEdit(renders[n], "result")
        /\ tasks[j].pc = "done"
        /\ CallsOf(j) = <<>>
        /\ Cardinality(CallsFor(updates[i].user)) = 1

\* ---------------------------------------------------------------------
\* updates[h] has changed the store: a Text on arrival, a Reset once past
\* line 87, a Selection with a registered key once past line 109
StoreEffectDone(h) == Effective(h) /\ tasks[h].pc \notin {"L87", "L103"}

\* the message created by renders[n] still shows its buttons
ButtonsVisible(n) ==
    /\ renders[n].op = "reply_text"
    /\ renders[n].reply_markup # <<>>
    /\ \A m \in 1..Len(renders) :
          ~(renders[m].op = "edit_message_text" /\ renders[m].message = {n})

\* updates[i] is a Selection with a registered key made from the buttons
\* rendered for the Text updates[j], with no Text, Reset or Selection with a
\* registered key of the user between the two
SelectionFromButtonsOf(i, j) ==
    /\ i \in Later(j)
    /\ \E k \in RegisteredKeys : ValidSel(i, k)
    /\ \E n \in 1..Len(renders) : renders[n].task = j /\ updates[i].message = {n}
    /\ \A h \in Earlier(i) : h > j => ~Effective(h)

\* C16: when the choose-direction render for Text(u,t) is about to be
\* emitted the store already holds t; as long as no later Text, Reset or
\* Selection with a registered key of u has changed the store it holds t,
\* in particular while the buttons rendered for the Text are visible; and a
\* Selection made from those buttons reads t and issues its call with it.
C16_StoredBeforeButtons ==
    \A j \in Tasks : \A t \in Texts :
        IsText(j, t) =>
            /\ tasks[j].pc = "L95" =>
                  /\ user_data[updates[j].user] = {<<"original_text", t>>}
                  /\ RendersOf({j}) = <<>>
            /\ (\A h \in Later(j) : ~StoreEffectDone(h)) =>
                  user_data[updates[j].user] = {<<"original_text", t>>}
            /\ \A n \in 1..Len(renders) :
                  (/\ renders[n].task = j
                   /\ ButtonsVisible(n)
                   /\ \A h \in Later(j) : ~StoreEffectDone(h))
                  => DictPopValue(user_data[updates[j].user], "original_text", None) = t
            /\ \A i \in Tasks :
                  SelectionFromButtonsOf(i, j) =>
                      /\ tasks[i].pc \in {"L121", "L58", "L123"} => tasks[i].original_text = t
                      /\ tasks[i].pc # "L103" =>
                            /\ Len(CallsOf(i)) <= 1
                            /\ \A c \in 1..Len(CallsOf(i)) : CallsOf(i)[c].contents[5] = t
                            /\ \A r \in 1..Len(RendersOf({i})) :
                                  ~IsEdit(RendersOf({i})[r], "no text found")

\* the buttons rendered for a Text are visible, the store holds its text,
\* and a Selection made from them has arrived and not yet read the store
C16_Witness ==
    \E j \in Tasks : \E t \in Texts : \E i \in Tasks : \E n \in 1..Len(renders) :
        /\ IsText(j, t)
        /\ renders[n].task = j
        /\ ButtonsVisible(n)
        /\ SelectionFromButtonsOf(i, j)
        /\ tasks[i].pc = "L103"
        /\ user_data[updates[j].user] = {<<"original_text", t>>}

\* ---------------------------------------------------------------------
\* the buttons of the keyboard carried by the render r, row by row
ButtonsOf(r) == {r.reply_markup[a][b] : a \in {1} \cap DOMAIN r.reply_markup,
                                        b \in 1..Len(ModeOrder)}

\* C17: every choose-direction render carries one row with one button per
\* registered mode, in the order of the registry; the b-th button is
\* labelled with the label of the b-th mode and valued with "mode_" followed
\* by its key, and the slice of the handler gives that key back; a Selection
\* whose data is the value of a rendered button never emits the "unknown
\* mode" render, and the label it shows is the label of that button.
C17_ButtonsResolve ==
    /\ {ModeOrder[b] : b \in 1..Len(ModeOrder)} = RegisteredKeys
    /\ Len(ModeOrder) = Cardinality(RegisteredKeys)
    /\ \A n \in 1..Len(renders) :
          renders[n].op = "reply_text" =>
              /\ renders[n].body = <<"choose direction">>
              /\ Len(renders[n].reply_markup) = 1
              /\ Len(renders[n].reply_markup[1]) = Len(ModeOrder)
              /\ \A b \in 1..Len(ModeOrder) :
                    LET button == renders[n].reply_markup[1][b]
                    IN /\ button.text = ACTIVE_MODES[ModeOrder[b]].button_text
                       /\ button.callback_data = ModePrefix \o ModeOrder[b]
                       /\ SliceFrom(button.callback_data, Len(ModePrefix)) = ModeOrder[b]
              /\ \A i \in Tasks : \A button \in ButtonsOf(renders[n]) :
                    (/\ updates[i].kind = "Selection"
                     /\ updates[i].message = {n}
                     /\ updates[i].data = button.callback_data
                     /\ tasks[i].pc # "L103")
                    => /\ RendersOf({i}) # <<>>
                       /\ \A m \in 1..Len(RendersOf({i})) :
                             LET r == RendersOf({i})[m]
                             IN /\ ~IsEdit(r, "unknown mode")
                                /\ r.body[1] \in {"working", "failed"} => r.body[2] = button.text

\* a Selection made from the second button of a rendered keyboard has
\* shown the label of that button
C17_Witness ==
    \E n \in 1..Len(renders) : \E i \in Tasks :
        /\ renders[n].op = "reply_text"
        /\ updates[i].kind = "Selection"
        /\ updates[i].message = {n}
        /\ updates[i].data = renders[n].reply_markup[1][2].callback_data
        /\ RendersOf({i}) # <<>>
        /\ IsEdit(RendersOf({i})[1], "working")
        /\ RendersOf({i})[1].body[2] = renders[n].reply_markup[1][2].text

\* ---------------------------------------------------------------------
\* the generation failed with the outcome o, for whatever reason: an error
\* was raised, there is no response, or its text is absent, empty or blank
FailedBecause(o) ==
    \/ o.exc # None
    \/ ~o.response
    \/ \A t \in o.text : strip(t) = <<>>

\* the failure render as a function of the Selection and the label of its
\* mode, and of nothing else
FailureRenderOf(i) ==
    [task |-> i, user |-> updates[i].user, op |-> "edit_message_text",
     message |-> updates[i].message, body |-> <<"failed", LabelOf(i)>>,
     reply_markup |-> <<>>]

\* C18: what a failed generation lets the user see does not depend on why it
\* failed. The step in which the call returns emits nothing, and the step
\* that ends the Selection after a failure of any cause appends the one
\* failure render determined by the Selection and the label of its mode,
\* ends the handler and changes nothing else; so two runs that differ only
\* in the cause of the failure have the same renders, calls and stores.
C18_FailureRenderFromLabelOnly ==
    [][\A i \in Tasks :
          /\ Moves(i, "L58", "L123") =>
                /\ renders' = renders
                /\ calls' = calls
                /\ user_data' = user_data
          /\ (tasks[i].pc = "L123" /\ tasks'[i] # tasks[i]
                /\ \E o \in tasks[i].outcome : FailedBecause(o)) =>
                /\ renders' = Append(renders, FailureRenderOf(i))
                /\ tasks' = [tasks EXCEPT ![i] = NoLocals]
                /\ calls' = calls
                /\ user_data' = user_data
                /\ updates' = updates]_vars

\* a Selection of the first mode has ended after a failed generation: the
\* renders of its user are the keyboard, the working edit and the failure
\* render made from the label
C18_Witness ==
    \E i \in Tasks :
        /\ ValidSel(i, slang_to_standard_russian)
        /\ tasks[i].pc = "done"
        /\ Len(renders) = 3
        /\ renders[3] = FailureRenderOf(i)
        /\ IsEdit(renders[2], "working")

\* ---------------------------------------------------------------------
\* C19: every result render carries a text of length at least one without
\* leading or trailing whitespace; the step that ends a Selection whose call
\* returned a response with a text emits the failure render naming the label
\* of the mode when that text is empty or blank, and otherwise the result
\* render with exactly the stripped text.
C19_NoEmptyResult ==
    [][/\ \A n \in 1..Len(renders') :
             renders'[n].body[1] = "result" =>
                 /\ Len(renders'[n].body[2]) >= 1
                 /\ strip(renders'[n].body[2]) = renders'[n].body[2]
       /\ \A i \in Tasks :
             (tasks[i].pc = "L123" /\ tasks'[i] # tasks[i]) =>
                 \A o \in tasks[i].outcome :
                     (o.exc = None /\ o.response) =>
                         \A t \in o.text :
                             LET r == renders'[Len(renders')]
                             IN /\ Len(renders') = Len(renders) + 1
                                /\ r.task = i
                                /\ IF strip(t) = <<>>
                                   THEN IsEdit(r, "failed") /\ r.body[2] = LabelOf(i)
                                   ELSE IsEdit(r, "result") /\ r.body[2] = strip(t)]_vars

\* the service has answered a Selection with a blank text, and the value
\* handed to the handler is the empty string
C19_Witness ==
    \E i \in Tasks : \E o \in tasks[i].outcome :
        /\ tasks[i].pc = "L123"
        /\ o.exc = None /\ o.response
        /\ o.text = {<<" ">>}
        /\ tasks[i].translated_text = {<<>>}

\* ---------------------------------------------------------------------
\* the bodies a Selection can render
SelectionBodies == {"unknown mode", "no text found", "working", "result", "failed"}

\* C20: every render of the handler of a Selection is an edit of the message
\* the Selection came from, carries no buttons, and is one of the five
\* renders of a Selection; a Selection never emits a render that sends a
\* message, and once it is past its first step the message it was made from
\* shows no buttons.
C20_SelectionEditsInPlace ==
    /\ \A n \in 1..Len(renders) :
          updates[renders[n].task].kind = "Selection" =>
              /\ renders[n].op = "edit_message_text"
              /\ renders[n].message = updates[renders[n].task].message
              /\ renders[n].message # {}
              /\ renders[n].reply_markup = <<>>
              /\ renders[n].body[1] \in SelectionBodies
    /\ \A i \in Tasks :
          (updates[i].kind = "Selection" /\ updates[i].message # {}
             /\ tasks[i].pc # "L103") =>
              /\ RendersOf({i}) # <<>>
              /\ \A n \in 1..Len(renders) :
                    updates[i].message = {n} => ~ButtonsVisible(n)

\* a Selection made from a rendered keyboard has ended with the result: the
\* working edit and the result edit are both edits of that keyboard message
C20_Witness ==
    \E i \in Tasks : \E n \in 1..Len(renders) :
        /\ updates[i].kind = "Selection"
        /\ updates[i].message = {n}
        /\ renders[n].op = "reply_text"
        /\ tasks[i].pc = "done"
        /\ Len(RendersOf({i})) = 2
        /\ IsEdit(RendersOf({i})[2], "result")
        /\ \A m \in 1..2 : RendersOf({i})[m].message = {n}
        /\ ~ButtonsVisible(n)

====
